---- MODULE Spec2Model ----
(***************************************************************************)
(* Model of the vector indexes of backend/retrieval/index.py (HNSWIndex,   *)
(* IVFIndex) and of cosine_similarity of backend/retrieval/embeddings.py.  *)
(*                                                                         *)
(* Numbers.  A Python float x is represented by the integer x * Scale,     *)
(* where Scale is the least common multiple of 1..MaxData, so that every   *)
(* mean "sum / count" that fit computes over at most MaxData training      *)
(* vectors is an exact integer division.  A cosine similarity              *)
(* dot / (|a| * |b|) is irrational in general; it is represented by the    *)
(* reduced fraction sign(dot) * dot^2 / (|a|^2 * |b|^2), which is a        *)
(* strictly increasing function of the cosine, so every comparison,        *)
(* maximum and sort the code performs on scores is decided exactly as on   *)
(* the reals.  Floating-point rounding is not modelled.                    *)
(*                                                                         *)
(* Objects.  IndexedVector instances are the entries of heap, addressed by *)
(* their position (the value of Python's id()); the containers of the      *)
(* indexes hold these references, as the code's lists do.  Pool is what    *)
(* the objects hold when the caller creates them.                          *)
(*                                                                         *)
(* Calls.  An index is used by one caller at a time.  call, err, result    *)
(* and evaluated are the caller's record of the call it has just made;     *)
(* the caller drops that record (Discard) before it makes its next call.   *)
(***************************************************************************)
EXTENDS Integers, Sequences, FiniteSets, TLC

\* ----------------------------------------------------------------- bounds
Dim == 2          \* the dimension every index of the model is built with
MaxData == 2      \* longest training sequence handed to fit
MaxStore == 2     \* most items an index holds
MaxEf == 2        \* largest ef of an HNSWIndex
MaxLists == 2     \* largest n_lists of an IVFIndex
MaxIter == 2      \* largest iterations of an IVFIndex
MaxK == 2         \* largest k handed to search

\* ---------------------------------------------------------------- helpers
Min(a, b) == IF a <= b THEN a ELSE b

Max(a, b) == IF a >= b THEN a ELSE b

Abs(x) == IF x < 0 THEN -x ELSE x

RECURSIVE GCD(_, _)
GCD(a, b) == IF b = 0 THEN a ELSE GCD(b, a % b)

RECURSIVE LCMUpTo(_)
LCMUpTo(n) == IF n <= 1 THEN 1 ELSE LET l == LCMUpTo(n - 1) IN (l * n) \div GCD(l, n)

\* the integer that represents the float 1.0
Scale == LCMUpTo(MaxData)

\* Python's seq[:n] for any integer n
PySlice(s, n) ==
    IF n >= 0 THEN SubSeq(s, 1, Min(n, Len(s)))
    ELSE SubSeq(s, 1, Max(Len(s) + n, 0))

RECURSIVE SumSeq(_)
SumSeq(s) == IF s = <<>> THEN 0 ELSE Head(s) + SumSeq(Tail(s))

\* ------------------------------------------------------------- embeddings
\* sum(a * b for a, b in zip(vec_a, vec_b))
Dot(a, b) == SumSeq([i \in 1..Min(Len(a), Len(b)) |-> a[i] * b[i]])

\* _l2_norm(v) squared; the norm is 0.0 exactly when this is 0
NormSq(v) == Dot(v, v)

\* the score that stands for the cosine n/sqrt(d): sign(n) * n^2 / d, reduced
MkScore(n, d) ==
    <<(IF n < 0 THEN -(n * n) ELSE n * n) \div GCD(n * n, d), d \div GCD(n * n, d)>>

ZeroScore == <<0, 1>>

DimError == <<"DimensionMismatch">>

\* the return value once both norms are known
CosineOf(dot, norm_a, norm_b) ==
    IF norm_a = 0 \/ norm_b = 0 THEN ZeroScore ELSE MkScore(dot, norm_a * norm_b)

\* mutant: the norms are looked at before the lengths are compared
cosine_similarity_NormsFirst(vec_a, vec_b) ==
    IF NormSq(vec_a) = 0 \/ NormSq(vec_b) = 0 THEN ZeroScore
    ELSE IF Len(vec_a) # Len(vec_b) THEN DimError
    ELSE MkScore(Dot(vec_a, vec_b), NormSq(vec_a) * NormSq(vec_b))

cosine_similarity(vec_a, vec_b) ==
    IF Len(vec_a) # Len(vec_b) THEN DimError
    ELSE CosineOf(Dot(vec_a, vec_b), NormSq(vec_a), NormSq(vec_b))

\* x <= y and x < y on scores
ScoreLE(x, y) == x[1] * y[2] <= y[1] * x[2]

ScoreLT(x, y) == x[1] * y[2] < y[1] * x[2]

\* ------------------------------------------------------------ input space
\* the vector (x, y, 0, ..., 0) of length Dim
V(x, y) == [i \in 1..Dim |-> Scale * (IF i = 1 THEN x ELSE IF i = 2 THEN y ELSE 0)]

ShortVec == [i \in 1..(Dim - 1) |-> Scale]

LongVec == [i \in 1..(Dim + 1) |-> Scale]

\* the IndexedVector objects callers hold
Pool ==
    << [vector |-> V(1, 0),  metadata |-> "a"],
       [vector |-> V(0, 1),  metadata |-> "b"],
       [vector |-> V(0, 0),  metadata |-> "a"],
       [vector |-> ShortVec, metadata |-> "c"] >>

Ids == 1..Len(Pool)

SeqsUpTo(S, n) == UNION {[1..m -> S] : m \in 0..n}

Batches == SeqsUpTo(Ids, MaxStore)

QueryVecs == {V(1, 0), V(-1, 1), ShortVec}

DataVecs == {V(1, 0), V(0, 1), LongVec}

NoiseVecs == {V(1, -1), V(-1, 1)}

KValues == 1..MaxK

\* n_probe = None, the default of search: no int, and the ints that search is
\* handed here are not negative
None == -1

\* n_probe: not given, 0, and the counts up to one more than there are lists
NProbeValues == {None} \cup 0..(MaxLists + 1)

\* the orders random.shuffle can leave range(n) in
Shuffles(n) == {p \in [1..n -> 1..n] : \A i, j \in 1..n : p[i] = p[j] => i = j}

\* mutant: drawing with replacement (random.choices)
Samples_WithReplacement(n, m) == [1..m -> 1..n]

\* the position lists random.sample(population of n, k = m) can draw
Samples(n, m) == {p \in [1..m -> 1..n] : \A i, j \in 1..m : p[i] = p[j] => i = j}

\* ------------------------------------------------------------------ state
VARIABLES
    kind,        \* "hnsw" or "ivf": the class of the index
    ef,          \* HNSWIndex.ef
    n_lists,     \* IVFIndex.n_lists
    iterations,  \* IVFIndex.iterations
    heap,        \* the IndexedVector objects, as they are now
    items,       \* HNSWIndex._items, a list of references into heap
    centroids,   \* IVFIndex._centroids
    lists,       \* IVFIndex._lists, lists of references into heap
    call,        \* the call just made on the index, with its arguments
    err,         \* how that call ended: "none" or the kind of error raised
    result,      \* what search returned: (score, metadata) pairs
    evaluated,   \* len(candidates) of the last search, as it logs it
    added,       \* history: the items stored since construction / last training
    fitted       \* history: some fit call has succeeded

\* the calling layers: PipelineState (api/gateway.py), RetrievalState
\* (retrieval/api.py) and the request threads of their HTTP servers
VARIABLES
    embedding_model,       \* state.embedding_model, by its dimension
    index,                 \* state.index: class "none" stands for None
    lock,                  \* state._lock: "free" or the thread that holds it
    _ingested_documents,   \* PipelineState._ingested_documents
    _chunk_counter,        \* PipelineState._chunk_counter
    thread,                \* per request thread: its request, position, locals
    observed               \* history: what the index calls of the layer did

service == <<embedding_model, index, lock, _ingested_documents, _chunk_counter,
             thread, observed>>

vars == <<kind, ef, n_lists, iterations, heap, items, centroids, lists,
          call, err, result, evaluated, added, fitted, service>>

config == <<kind, ef, n_lists, iterations>>

\* no calling layer: the index is driven directly
NoService ==
    /\ embedding_model = 0
    /\ index = [class |-> "none"]
    /\ lock = "free"
    /\ _ingested_documents = <<>>
    /\ _chunk_counter = 0
    /\ thread = <<>>
    /\ observed = <<>>

\* no index is driven directly: the caller holds none, or a calling layer
\* holds its own in state.index
NoCore ==
    /\ kind = "none"
    /\ ef = 0
    /\ n_lists = 0
    /\ iterations = 0
    /\ heap = Pool
    /\ items = <<>>
    /\ centroids = <<>>
    /\ lists = <<>>
    /\ call = [op |-> "idle"]
    /\ err = "none"
    /\ result = <<>>
    /\ evaluated = 0
    /\ added = <<>>
    /\ fitted = FALSE

core == <<kind, ef, n_lists, iterations, heap, items, centroids, lists,
          call, err, result, evaluated, added, fitted>>

\* the caller is free to call an index of class cls
Ready(cls) == call.op = "idle" /\ kind = cls

\* ---------------------------------------------------------------- sorting
\* list.sort(key = pair[0], reverse = True) is stable: x goes behind every
\* element whose score is >= its own, that is at position p + 1
InsertAt(sorted, x, p) ==
    SubSeq(sorted, 1, p) \o <<x>> \o SubSeq(sorted, p + 1, Len(sorted))

\* mutant: the sort without reverse = True
InsertDesc_Ascending(sorted, x) ==
    InsertAt(sorted, x,
             Cardinality({i \in 1..Len(sorted) : ScoreLE(sorted[i][1], x[1])}))

InsertDesc(sorted, x) ==
    InsertAt(sorted, x,
             Cardinality({i \in 1..Len(sorted) : ScoreLE(x[1], sorted[i][1])}))

RECURSIVE SortFrom(_, _)
SortFrom(sorted, rest) ==
    IF rest = <<>> THEN sorted
    ELSE SortFrom(InsertDesc(sorted, Head(rest)), Tail(rest))

SortDesc(pairs) == SortFrom(<<>>, pairs)

\* [(cosine_similarity(query, item.vector), item.metadata) for item in cands]
ScorePairs(query, cands) ==
    [i \in 1..Len(cands) |->
        <<cosine_similarity(query, heap[cands[i]].vector), heap[cands[i]].metadata>>]

\* scores.sort(...); top_k = scores[:k]
TopK(query, cands, k) == PySlice(SortDesc(ScorePairs(query, cands)), k)

\* position of the first wrong-dimension item of a batch, Len + 1 if none
FirstBad(batch) ==
    IF \A i \in 1..Len(batch) : Len(heap[batch[i]].vector) = Dim
    THEN Len(batch) + 1
    ELSE CHOOSE i \in 1..Len(batch) :
            /\ Len(heap[batch[i]].vector) # Dim
            /\ \A j \in 1..(i - 1) : Len(heap[batch[j]].vector) = Dim

\* mutant: the item is appended before its dimension is checked
Stored_AppendFirst(batch) == SubSeq(batch, 1, Min(FirstBad(batch), Len(batch)))

\* the items of a batch that the add loop reaches and stores before it raises
Stored(batch) == SubSeq(batch, 1, FirstBad(batch) - 1)

\* how the add loop ends
AddOutcome(batch) ==
    IF FirstBad(batch) <= Len(batch) THEN "DimensionMismatch" ELSE "none"

\* -------------------------------------------------------------- HNSWIndex
\* the top-up loop of search over the part of _items not yet visited
RECURSIVE TopUp(_, _, _, _)
TopUp(cands, rest, seen, efv) ==
    IF rest = <<>> THEN cands
    ELSE IF Head(rest) \in seen THEN TopUp(cands, Tail(rest), seen, efv)
    ELSE IF Len(cands) + 1 >= efv THEN Append(cands, Head(rest))
    ELSE TopUp(Append(cands, Head(rest)), Tail(rest), seen, efv)

\* candidates, given the items random.sample drew
CandidatesFrom(drawn, store, efv) ==
    IF Len(drawn) < Len(store)
    THEN TopUp(drawn, store, {drawn[i] : i \in 1..Len(drawn)}, efv)
    ELSE drawn

HNSWCandidates(store, efv, sample) ==
    CandidatesFrom([i \in 1..Len(sample) |-> store[sample[i]]], store, efv)

HNSWAdd(batch) ==
    /\ Ready("hnsw")
    /\ Len(items) + Len(batch) <= MaxStore
    /\ items' = items \o Stored(batch)
    /\ added' = added \o Stored(batch)
    /\ err' = AddOutcome(batch)
    /\ call' = [op |-> "add", batch |-> batch]
    /\ result' = <<>>
    /\ evaluated' = 0
    /\ UNCHANGED <<service, heap, config, centroids, lists, fitted>>

\* the part of search behind the two early exits
HNSWScan(query, k, cands) ==
    /\ err' = "none"
    /\ evaluated' = Len(cands)
    /\ result' = TopK(query, cands, k)

HNSWSearch(query, k, sample) ==
    /\ Ready("hnsw")
    /\ call' = [op |-> "search", query |-> query, k |-> k, n_probe |-> None]
    /\ IF Len(query) # Dim
       THEN /\ err' = "DimensionMismatch"
            /\ result' = <<>>
            /\ evaluated' = 0
       ELSE IF items = <<>>
       THEN /\ err' = "none"
            /\ result' = <<>>
            /\ evaluated' = 0
       ELSE HNSWScan(query, k, HNSWCandidates(items, ef, sample))
    /\ UNCHANGED <<service, heap, config, items, centroids, lists, added, fitted>>

\* --------------------------------------------------------------- IVFIndex
_initialise_centroids(data, shuffled, noise, nl) ==
    [i \in 1..Min(nl, Len(shuffled)) |-> data[shuffled[i]]] \o noise

\* max(range(len(scores)), key = scores.__getitem__): the first maximum
\* mutant: the last maximum instead of the first
FirstMax_Last(scores) ==
    CHOOSE idx \in 1..Len(scores) :
       /\ \A j \in 1..Len(scores) : ScoreLE(scores[j], scores[idx])
       /\ \A j \in (idx + 1)..Len(scores) : ScoreLT(scores[j], scores[idx])

FirstMax(scores) ==
    CHOOSE idx \in 1..Len(scores) :
       /\ \A j \in 1..Len(scores) : ScoreLE(scores[j], scores[idx])
       /\ \A j \in 1..(idx - 1) : ScoreLT(scores[j], scores[idx])

_assign(vector, cents) ==
    FirstMax([c \in 1..Len(cents) |-> cosine_similarity(vector, cents[c])])

\* assignments[idx] of one round, in data order
Assigned(data, assignment, idx) ==
    SelectSeq([i \in 1..Len(data) |-> <<data[i], assignment[i]>>],
              LAMBDA pair : pair[2] = idx)

\* per-dimension sum / count over the (vector, bucket) pairs of one centroid
Mean(assigned) ==
    [dim \in 1..Dim |->
        SumSeq([i \in 1..Len(assigned) |-> assigned[i][1][dim]]) \div Len(assigned)]

\* mutant: a centroid without assigned vectors is set back to zero
Recompute_ResetsEmpty(old, assigned) ==
    IF assigned = <<>> THEN [dim \in 1..Dim |-> 0] ELSE Mean(assigned)

\* "if not assigned: continue", else the centroid becomes the mean
Recompute(old, assigned) == IF assigned = <<>> THEN old ELSE Mean(assigned)

RoundWith(cents, data, assignment) ==
    [idx \in 1..Len(cents) |-> Recompute(cents[idx], Assigned(data, assignment, idx))]

\* one refinement round: assign every vector, then recompute every centroid
Round(cents, data) ==
    RoundWith(cents, data, [i \in 1..Len(data) |-> _assign(data[i], cents)])

RECURSIVE Refine(_, _, _)
Refine(cents, data, rounds) ==
    IF rounds = 0 THEN cents ELSE Refine(Round(cents, data), data, rounds - 1)

\* the loop body of add: append each item to the bucket _assign names
RECURSIVE AddAll(_, _, _)
AddAll(buckets, stored, cents) ==
    IF stored = <<>> THEN buckets
    ELSE AddAll([buckets EXCEPT ![_assign(heap[Head(stored)].vector, cents)] =
                                    Append(@, Head(stored))],
                Tail(stored), cents)

RECURSIVE Flatten(_)
Flatten(ss) == IF ss = <<>> THEN <<>> ELSE Head(ss) \o Flatten(Tail(ss))

\* the centroids a fit call that passes its checks leaves behind
Trained(data, shuffled, noise, nl, rounds) ==
    Refine(_initialise_centroids(data, shuffled, noise, nl), data, rounds)

\* the fit calls that pass both checks, with what the random source hands them
FitCalls ==
    UNION {{<<data, shuffled, noise, nl, rounds>> :
               shuffled \in Shuffles(Len(data)),
               noise \in [1..Max(nl - Len(data), 0) -> NoiseVecs],
               rounds \in 1..MaxIter} :
           <<data, nl>> \in {p \in SeqsUpTo(DataVecs, MaxData) \X (1..MaxLists) :
                               /\ Len(p[1]) >= p[2]
                               /\ \A i \in 1..Len(p[1]) : Len(p[1][i]) = Dim}}

\* Trained is a function of the call alone, so it is tabulated once (the
\* merge with the empty function makes the table an explicit one)
TrainedTable == [x \in FitCalls |-> Trained(x[1], x[2], x[3], x[4], x[5])] @@ <<>>

\* the centroids at the head of every round of the loop of fit and after
\* the last one
RECURSIVE Rounds(_, _, _)
Rounds(cents, data, rounds) ==
    IF rounds = 0 THEN <<cents>>
    ELSE <<cents>> \o Rounds(Round(cents, data), data, rounds - 1)

RoundsTable ==
    [x \in FitCalls |->
        Rounds(_initialise_centroids(x[1], x[2], x[3], x[4]), x[1], x[5])] @@ <<>>

\* mutant: no length check, the padding of _initialise_centroids fills in
IVFFit_NoLengthCheck(data, shuffled, noise) ==
    /\ Ready("ivf")
    /\ call' = [op |-> "fit", data |-> data, rounds |-> <<>>, held |-> Len(added)]
    /\ result' = <<>>
    /\ evaluated' = 0
    /\ IF \E i \in 1..Len(data) : Len(data[i]) # Dim
       THEN /\ err' = "DimensionMismatch"
            /\ UNCHANGED <<centroids, lists, added, fitted>>
       ELSE /\ err' = "none"
            /\ centroids' = Trained(data, shuffled, noise, n_lists, iterations)
            /\ lists' = [i \in 1..Len(centroids') |-> <<>>]
            /\ added' = <<>>
            /\ fitted' = TRUE
    /\ UNCHANGED <<service, heap, config, items>>

\* mutant: a fit of a trained index leaves the buckets as they are
IVFFit_KeepsPostings(data, shuffled, noise) ==
    /\ Ready("ivf")
    /\ call' = [op |-> "fit", data |-> data, rounds |-> <<>>, held |-> Len(added)]
    /\ result' = <<>>
    /\ evaluated' = 0
    /\ IF Len(data) < n_lists
       THEN /\ err' = "InvalidConfig"
            /\ UNCHANGED <<centroids, lists, added, fitted>>
       ELSE IF \E i \in 1..Len(data) : Len(data[i]) # Dim
       THEN /\ err' = "DimensionMismatch"
            /\ UNCHANGED <<centroids, lists, added, fitted>>
       ELSE /\ err' = "none"
            /\ centroids' = TrainedTable[<<data, shuffled, noise, n_lists, iterations>>]
            /\ lists' = IF lists = <<>> THEN [i \in 1..Len(centroids') |-> <<>>]
                        ELSE lists
            /\ fitted' = TRUE
            /\ UNCHANGED added
    /\ UNCHANGED <<service, heap, config, items>>

\* call.rounds and call.held are history: the centroids round by round, when
\* fit got there, and the number of items the buckets held at the call
IVFFit(data, shuffled, noise) ==
    /\ Ready("ivf")
    /\ call' = [op |-> "fit", data |-> data, held |-> Len(added),
                rounds |-> IF \/ Len(data) < n_lists
                              \/ \E i \in 1..Len(data) : Len(data[i]) # Dim
                           THEN <<>>
                           ELSE RoundsTable[<<data, shuffled, noise, n_lists,
                                              iterations>>]]
    /\ result' = <<>>
    /\ evaluated' = 0
    /\ IF Len(data) < n_lists
       THEN /\ err' = "InvalidConfig"
            /\ UNCHANGED <<centroids, lists, added, fitted>>
       ELSE IF \E i \in 1..Len(data) : Len(data[i]) # Dim
       THEN /\ err' = "DimensionMismatch"
            /\ UNCHANGED <<centroids, lists, added, fitted>>
       ELSE /\ err' = "none"
            /\ centroids' = TrainedTable[<<data, shuffled, noise, n_lists, iterations>>]
            /\ lists' = [i \in 1..Len(centroids') |-> <<>>]
            /\ added' = <<>>
            /\ fitted' = TRUE
    /\ UNCHANGED <<service, heap, config, items>>

\* mutant: no check up front, only _assign notices the missing centroids
IVFAdd_LateCheck(batch) ==
    /\ Ready("ivf")
    /\ Len(added) + Len(batch) <= MaxStore
    /\ call' = [op |-> "add", batch |-> batch]
    /\ result' = <<>>
    /\ evaluated' = 0
    /\ IF centroids = <<>>
       THEN /\ err' = IF batch = <<>> THEN "none"
                      ELSE IF FirstBad(batch) = 1 THEN "DimensionMismatch"
                      ELSE "NotTrained"
            /\ UNCHANGED <<lists, added>>
       ELSE /\ lists' = AddAll(lists, Stored(batch), centroids)
            /\ added' = added \o Stored(batch)
            /\ err' = AddOutcome(batch)
    /\ UNCHANGED <<service, heap, config, items, centroids, fitted>>

IVFAdd(batch) ==
    /\ Ready("ivf")
    /\ Len(added) + Len(batch) <= MaxStore
    /\ call' = [op |-> "add", batch |-> batch]
    /\ result' = <<>>
    /\ evaluated' = 0
    /\ IF centroids = <<>>
       THEN /\ err' = "NotTrained"
            /\ UNCHANGED <<lists, added>>
       ELSE /\ lists' = AddAll(lists, Stored(batch), centroids)
            /\ added' = added \o Stored(batch)
            /\ err' = AddOutcome(batch)
    /\ UNCHANGED <<service, heap, config, items, centroids, fitted>>

\* mutant: one bucket too few is probed
Ranked_OneShort(query, cents, n_probe) ==
    PySlice(SortDesc([c \in 1..Len(cents) |->
                         <<cosine_similarity(query, cents[c]), c>>]),
            n_probe - 1)

\* sorted(range(len(scores)), key = scores.__getitem__, reverse = True)[:n_probe]
Ranked(query, cents, n_probe) ==
    PySlice(SortDesc([c \in 1..Len(cents) |->
                         <<cosine_similarity(query, cents[c]), c>>]),
            n_probe)

\* candidates.extend(self._lists[idx]) for idx in ranked
Gather(ranked, buckets) ==
    Flatten([i \in 1..Len(ranked) |-> buckets[ranked[i][2]]])

\* n_probe or min(2, len(self._centroids))
Probes(n_probe, cents) ==
    IF n_probe = None \/ n_probe = 0 THEN Min(2, Len(cents)) ELSE n_probe

\* the part of search behind the two early exits
IVFScan(query, k, cands) ==
    /\ err' = "none"
    /\ evaluated' = Len(cands)
    /\ result' = TopK(query, cands, k)

\* mutant: search refuses an untrained index the way add does
IVFSearch_Strict(query, k, n_probe) ==
    /\ Ready("ivf")
    /\ call' = [op |-> "search", query |-> query, k |-> k, n_probe |-> n_probe]
    /\ IF Len(query) # Dim
       THEN /\ err' = "DimensionMismatch"
            /\ result' = <<>>
            /\ evaluated' = 0
       ELSE IF centroids = <<>>
       THEN /\ err' = "NotTrained"
            /\ result' = <<>>
            /\ evaluated' = 0
       ELSE IVFScan(query, k,
                    Gather(Ranked(query, centroids, Probes(n_probe, centroids)), lists))
    /\ UNCHANGED <<service, heap, config, items, centroids, lists, added, fitted>>

IVFSearch(query, k, n_probe) ==
    /\ Ready("ivf")
    /\ call' = [op |-> "search", query |-> query, k |-> k, n_probe |-> n_probe]
    /\ IF Len(query) # Dim
       THEN /\ err' = "DimensionMismatch"
            /\ result' = <<>>
            /\ evaluated' = 0
       ELSE IF centroids = <<>>
       THEN /\ err' = "none"
            /\ result' = <<>>
            /\ evaluated' = 0
       ELSE IVFScan(query, k,
                    Gather(Ranked(query, centroids, Probes(n_probe, centroids)), lists))
    /\ UNCHANGED <<service, heap, config, items, centroids, lists, added, fitted>>

\* ---------------------------------------------------------- specification
Init ==
    /\ kind \in {"hnsw", "ivf"}
    /\ ef \in IF kind = "hnsw" THEN 1..MaxEf ELSE {0}
    /\ n_lists \in IF kind = "ivf" THEN 1..MaxLists ELSE {0}
    /\ iterations \in IF kind = "ivf" THEN 1..MaxIter ELSE {0}
    /\ heap = Pool
    /\ items = <<>>
    /\ centroids = <<>>
    /\ lists = <<>>
    /\ call = [op |-> "idle"]
    /\ err = "none"
    /\ result = <<>>
    /\ evaluated = 0
    /\ added = <<>>
    /\ fitted = FALSE
    /\ NoService

\* fit raises before it reaches _initialise_centroids
FitRaises(data) ==
    Len(data) < n_lists \/ \E i \in 1..Len(data) : Len(data[i]) # Dim

\* what the random source hands to a fit call: nothing is drawn when fit
\* raises, else a shuffle of the indices and the noise for missing centroids
ShufflesDrawn(data) == IF FitRaises(data) THEN {<<>>} ELSE Shuffles(Len(data))

NoiseDrawn(data) ==
    IF FitRaises(data) THEN {<<>>}
    ELSE [1..Max(n_lists - Len(data), 0) -> NoiseVecs]

\* the caller has taken the outcome of its call
Discard ==
    /\ call.op # "idle"
    /\ call' = [op |-> "idle"]
    /\ err' = "none"
    /\ result' = <<>>
    /\ evaluated' = 0
    /\ UNCHANGED <<service, heap, config, items, centroids, lists, added, fitted>>

Next ==
    \/ Ready("hnsw") /\ \E batch \in Batches : HNSWAdd(batch)
    \/ Ready("hnsw") /\ \E query \in QueryVecs, k \in KValues :
          \E sample \in Samples(Len(items), Min(Len(items), ef)) :
             HNSWSearch(query, k, sample)
    \/ Ready("ivf") /\ \E data \in SeqsUpTo(DataVecs, MaxData) :
          \E shuffled \in ShufflesDrawn(data) : \E noise \in NoiseDrawn(data) :
             IVFFit(data, shuffled, noise)
    \/ Ready("ivf") /\ \E batch \in Batches : IVFAdd(batch)
    \/ Ready("ivf") /\ \E query \in QueryVecs, k \in KValues, n_probe \in NProbeValues :
          IVFSearch(query, k, n_probe)
    \/ Discard

Spec == Init /\ [][Next]_vars

\* ----------------------------------------------------------------- claims
\* the scores of a search result, in order
Scores(res) == [i \in 1..Len(res) |-> res[i][1]]

\* the first k scores of an exhaustive scan of the stored items
ExhaustiveScores(query, stored, k) ==
    PySlice(Scores(SortDesc(ScorePairs(query, stored))), k)

\* the longest prefix of a batch whose items all have the index's dimension
ValidPrefix(batch) ==
    SubSeq(batch, 1,
           Cardinality({i \in 1..Len(batch) :
                          \A j \in 1..i : Len(heap[batch[j]].vector) = Dim}))

HasBadItem(batch) == \E i \in 1..Len(batch) : Len(heap[batch[i]].vector) # Dim

\* the items of a batch that belong in bucket b
ForBucket(batch, cents, b) ==
    SelectSeq(batch, LAMBDA id : _assign(heap[id].vector, cents) = b)

\* C1: add on an IVFIndex on which no fit has succeeded fails with NotTrained
\* for every batch, the empty one included, and the index keeps zero
\* centroids and zero buckets.
C1_AddBeforeFitFails ==
    [][(kind = "ivf" /\ ~fitted /\ call'.op = "add")
          => (err' = "NotTrained" /\ centroids' = <<>> /\ lists' = <<>>)]_vars

C1_Witness ==
    /\ kind = "ivf" /\ ~fitted
    /\ call.op = "add" /\ call.batch = <<>>
    /\ err = "NotTrained"

\* C2: search on an IVFIndex without centroids, with a query of the index's
\* dimension, returns the empty result for every k and n_probe without
\* failing, and the index stays untrained.
C2_SearchUntrainedIsEmpty ==
    [][(kind = "ivf" /\ centroids = <<>> /\ call'.op = "search"
           /\ Len(call'.query) = Dim)
          => (err' = "none" /\ result' = <<>> /\ centroids' = <<>> /\ lists' = <<>>)]_vars

C2_Witness ==
    /\ kind = "ivf" /\ centroids = <<>>
    /\ call.op = "search" /\ Len(call.query) = Dim /\ call.n_probe = n_lists
    /\ err = "none" /\ result = <<>>

\* C3: once fit has succeeded, no later operation changes the centroid list
\* (the lifecycle is one-way Untrained -> Trained and centroids are frozen).
C3_CentroidsFrozen ==
    [][centroids # <<>> => centroids' = centroids]_vars

\* C4: an IVFIndex is either untrained with zero centroids and zero buckets
\* or has exactly n_lists centroids and n_lists buckets, and every item of
\* bucket i has centroid i as its maximum-cosine centroid, the lowest index
\* winning ties.
C4_BucketsPairedWithCentroids ==
    kind = "ivf" =>
       \/ centroids = <<>> /\ lists = <<>>
       \/ /\ Len(centroids) = n_lists
          /\ Len(lists) = n_lists
          /\ \A i \in 1..Len(lists) : \A p \in 1..Len(lists[i]) :
                \A c \in 1..Len(centroids) :
                   IF c < i
                   THEN ScoreLT(cosine_similarity(heap[lists[i][p]].vector, centroids[c]),
                                cosine_similarity(heap[lists[i][p]].vector, centroids[i]))
                   ELSE ScoreLE(cosine_similarity(heap[lists[i][p]].vector, centroids[c]),
                                cosine_similarity(heap[lists[i][p]].vector, centroids[i]))

\* two distinct centroids, an item in the second bucket, and an item in the
\* first bucket that is equally close to both centroids
C4_Witness ==
    /\ kind = "ivf" /\ Len(centroids) = 2 /\ centroids[1] # centroids[2]
    /\ lists[2] # <<>>
    /\ \E p \in 1..Len(lists[1]) :
          cosine_similarity(heap[lists[1][p]].vector, centroids[1])
             = cosine_similarity(heap[lists[1][p]].vector, centroids[2])

\* C5 as stated: on either index variant, add with a batch that holds a
\* wrong-dimension item fails with DimensionMismatch and stores exactly the
\* items before the first such item, in order.
C5_Original ==
    [][(call'.op = "add" /\ HasBadItem(call'.batch))
          => (err' = "DimensionMismatch"
              /\ added' = added \o ValidPrefix(call'.batch))]_vars

\* C5 amended: on an HNSWIndex and on a trained IVFIndex, add with a batch
\* that holds a wrong-dimension item fails with DimensionMismatch and
\* stores exactly the items before the first such item, in order, and
\* nothing else; an untrained IVFIndex fails with NotTrained and stores
\* nothing.
C5_PartialCommit ==
    [][(call'.op = "add" /\ HasBadItem(call'.batch))
          => IF kind = "hnsw"
             THEN /\ err' = "DimensionMismatch"
                  /\ items' = items \o ValidPrefix(call'.batch)
             ELSE IF centroids # <<>>
             THEN /\ err' = "DimensionMismatch"
                  /\ centroids' = centroids
                  /\ Len(lists') = Len(lists)
                  /\ \A b \in 1..Len(lists) :
                        lists'[b] = lists[b]
                           \o ForBucket(ValidPrefix(call'.batch), centroids, b)
             ELSE /\ err' = "NotTrained"
                  /\ lists' = lists]_vars

\* a trained IVFIndex whose last add stored one item and then met a
\* wrong-dimension item
C5_Witness ==
    /\ kind = "ivf" /\ centroids # <<>>
    /\ call.op = "add" /\ Len(call.batch) = 2
    /\ Len(heap[call.batch[1]].vector) = Dim
    /\ Len(heap[call.batch[2]].vector) # Dim
    /\ err = "DimensionMismatch"
    /\ added = <<call.batch[1]>>

\* C6: for positive k, a search that returns gives at most k pairs, in
\* non-increasing score order, and each pair is the cosine score and the
\* metadata of a stored item, no item being returned more often than it was
\* added.
C6_SearchResultSound ==
    (call.op = "search" /\ err = "none" /\ call.k > 0) =>
       /\ Len(result) <= call.k
       /\ \A i \in 1..(Len(result) - 1) : ScoreLE(result[i + 1][1], result[i][1])
       /\ \E f \in [1..Len(result) -> 1..Len(added)] :
             /\ \A i, j \in 1..Len(result) : f[i] = f[j] => i = j
             /\ \A i \in 1..Len(result) :
                   /\ result[i][1] = cosine_similarity(call.query, heap[added[f[i]]].vector)
                   /\ result[i][2] = heap[added[f[i]]].metadata

\* a search that scored more candidates than it returned, with two
\* different scores among the returned ones
C6_Witness ==
    /\ call.op = "search" /\ err = "none"
    /\ Len(result) = 2 /\ result[1][1] # result[2][1]
    /\ Len(added) = 2

\* C7: on an HNSWIndex with ef >= number of stored items, search returns
\* the score sequence of an exhaustive scan cut to k, whatever the sample.
C7_HNSWExactWhenEfCoversStore ==
    (kind = "hnsw" /\ call.op = "search" /\ err = "none" /\ call.k > 0
        /\ ef >= Len(items))
       => Scores(result) = ExhaustiveScores(call.query, items, call.k)

\* two stored items with different scores, of which search returns one
C7_Witness ==
    /\ kind = "hnsw" /\ call.op = "search" /\ err = "none"
    /\ ef >= Len(items) /\ Len(items) = 2 /\ call.k = 1 /\ Len(result) = 1
    /\ cosine_similarity(call.query, heap[items[1]].vector)
          # cosine_similarity(call.query, heap[items[2]].vector)

\* C8: HNSWIndex.search on a non-empty store scores exactly
\* min(|store|, ef) candidates, never more than ef.
C8_EvaluatesAtMostEf ==
    (kind = "hnsw" /\ call.op = "search" /\ err = "none" /\ items # <<>>)
       => evaluated = Min(Len(items), ef)

\* C9: on a trained IVFIndex, search with n_probe = n_lists returns the
\* score sequence of an exhaustive scan over the items added since
\* training, cut to k.
C9_IVFExactWhenAllProbed ==
    (kind = "ivf" /\ call.op = "search" /\ err = "none" /\ call.k > 0
        /\ centroids # <<>> /\ call.n_probe = n_lists)
       => Scores(result) = ExhaustiveScores(call.query, added, call.k)

\* both buckets of a two-list index hold an item and all are returned
C9_Witness ==
    /\ kind = "ivf" /\ call.op = "search" /\ err = "none"
    /\ n_lists = 2 /\ call.n_probe = 2 /\ Len(centroids) = 2
    /\ lists[1] # <<>> /\ lists[2] # <<>>
    /\ Len(result) = 2

\* C10: fit with fewer than n_lists vectors fails with InvalidConfig, and a
\* failed fit leaves centroids and buckets as they were.
C10_FailedFitChangesNothing ==
    [][(kind = "ivf" /\ call'.op = "fit")
          => /\ Len(call'.data) < n_lists => err' = "InvalidConfig"
             /\ err' # "none" => (centroids' = centroids /\ lists' = lists)]_vars

\* a trained index holding items on which a fit with too little data failed
C10_Witness ==
    /\ kind = "ivf" /\ call.op = "fit" /\ Len(call.data) < n_lists
    /\ err = "InvalidConfig"
    /\ centroids # <<>> /\ added # <<>> /\ Flatten(lists) # <<>>

\* ------------------------------------------------------------ constructors
\* VectorIndex.__init__: the dimension is stored as given
VectorIndex(dimension) == [dimension |-> dimension]

\* HNSWIndex.__init__ never raises: self.ef = max(ef, 1)
HNSWIndex(dimension, efArg) ==
    [class |-> "hnsw", dimension |-> VectorIndex(dimension).dimension,
     ef |-> Max(efArg, 1), _items |-> <<>>]

\* IVFIndex.__init__ raises for n_lists <= 0 and for nothing else
IVFIndexRaises(nl) == nl <= 0

\* the object IVFIndex.__init__ leaves when it does not raise
IVFIndex(dimension, nl, rounds) ==
    [class |-> "ivf", dimension |-> VectorIndex(dimension).dimension,
     n_lists |-> nl, iterations |-> Max(rounds, 1),
     _centroids |-> <<>>, _lists |-> <<>>]

\* the arguments a caller hands to a constructor
DimensionArgs == -1..Dim

EfArgs == -1..MaxEf

NListsArgs == -1..MaxLists

IterationsArgs == -1..MaxIter

\* a caller that holds no index is free to call a function of the library
Idle == call.op = "idle" /\ kind = "none"

\* index = HNSWIndex(dimension, ef = efArg)
NewHNSWIndex(dimension, efArg) ==
    /\ Idle
    /\ call' = [op |-> "HNSWIndex", dimension |-> dimension, ef |-> efArg,
                n_lists |-> 1, iterations |-> 1]
    /\ err' = "none"
    /\ result' = <<HNSWIndex(dimension, efArg)>>
    /\ evaluated' = 0
    /\ UNCHANGED <<service, heap, config, items, centroids, lists, added, fitted>>

\* index = IVFIndex(dimension, n_lists = nl, iterations = rounds)
NewIVFIndex(dimension, nl, rounds) ==
    /\ Idle
    /\ call' = [op |-> "IVFIndex", dimension |-> dimension, ef |-> 1,
                n_lists |-> nl, iterations |-> rounds]
    /\ IF IVFIndexRaises(nl)
       THEN /\ err' = "InvalidConfig"
            /\ result' = <<>>
       ELSE /\ err' = "none"
            /\ result' = <<IVFIndex(dimension, nl, rounds)>>
    /\ evaluated' = 0
    /\ UNCHANGED <<service, heap, config, items, centroids, lists, added, fitted>>

\* a constructor call with one of the parameters the claim calls bad
BadParameters(c) ==
    \/ c.dimension <= 0
    \/ c.op = "HNSWIndex" /\ c.ef <= 0
    \/ c.op = "IVFIndex" /\ (c.n_lists <= 0 \/ c.iterations <= 0)

\* C11: constructing an index with a bad parameter (dimension <= 0 for either
\* class, ef <= 0 for HNSWIndex, n_lists <= 0 or iterations <= 0 for IVFIndex)
\* fails with InvalidConfig and hands no index object to the caller.
C11_BadParametersRejected ==
    (call.op \in {"HNSWIndex", "IVFIndex"} /\ BadParameters(call))
        => (err = "InvalidConfig" /\ result = <<>>)

\* ------------------------------------------------ the caller's own objects
MaxMutated == 1   \* most objects that differ from what they were created with

\* the values a caller stores into a component of a vector it holds
ComponentValues == {-Scale, Scale}

MetadataValues == {"z"}

\* the caller is between two calls on its index
Holding == call.op = "idle" /\ kind \in {"hnsw", "ivf"}

FewMutated(objects) ==
    Cardinality({id \in Ids : objects[id] # Pool[id]}) <= MaxMutated

\* item.vector[i] = value, on an IndexedVector the caller still holds
MutateVector(id, i, value) ==
    /\ Holding
    /\ i \in 1..Len(heap[id].vector)
    /\ heap[id].vector[i] # value
    /\ heap' = [heap EXCEPT ![id].vector[i] = value]
    /\ FewMutated(heap')
    /\ UNCHANGED <<service, config, items, centroids, lists, added, fitted,
                   call, err, result, evaluated>>

\* item.metadata = value (or an update of the dict in place)
MutateMetadata(id, value) ==
    /\ Holding
    /\ heap[id].metadata # value
    /\ heap' = [heap EXCEPT ![id].metadata = value]
    /\ FewMutated(heap')
    /\ UNCHANGED <<service, config, items, centroids, lists, added, fitted,
                   call, err, result, evaluated>>

OwnerNext ==
    \/ Next
    \/ \E id \in Ids, i \in 1..Dim, value \in ComponentValues :
          MutateVector(id, i, value)
    \/ \E id \in Ids, value \in MetadataValues : MutateMetadata(id, value)

OwnerSpec == Init /\ [][OwnerNext]_vars

\* what search(query, k, n_probe = n_probe) returns in the current state when
\* random.sample draws the positions sample
Returned(query, k, sample, n_probe) ==
    IF kind = "hnsw"
    THEN IF items = <<>> THEN <<>>
         ELSE TopK(query, HNSWCandidates(items, ef, sample), k)
    ELSE IF centroids = <<>> THEN <<>>
         ELSE TopK(query,
                   Gather(Ranked(query, centroids, Probes(n_probe, centroids)), lists),
                   k)

\* the draws random.sample can make in the current state
Draws == IF kind = "hnsw" THEN Samples(Len(items), Min(Len(items), ef)) ELSE {<<>>}

\* C12: once add has returned, the index owns its own copy of each item: when
\* the caller mutates the vector or the metadata of an IndexedVector it holds,
\* every search returns the same scores and metadata as before the mutation.
C12_IndexOwnsItsCopy ==
    [][heap' # heap =>
         \A query \in {q \in QueryVecs : Len(q) = Dim}, k \in KValues,
            n_probe \in NProbeValues, sample \in Draws :
               Returned(query, k, sample, n_probe)' = Returned(query, k, sample, n_probe)]_vars

\* ---------------------------------------------------------- calling layers
\* The layers are modelled with the index reduced to what they depend on:
\* its class, its dimension, n_lists, whether fit has succeeded on it, and the
\* entries it stores (each chunk tagged with the ingest call and document it
\* came from, and with the number of documents of that call).  Vector values, scores and bucket placement are left to the
\* index model above; a vector is present by its dimension only.
MaxDocs == 3      \* most documents the pipeline holds

\* LocalEmbeddingModel() and the dimension default of configure
DefaultDimension == 256

\* the request threads of ThreadingHTTPServer
Threads == {"t1", "t2"}

\* state.index = None
NoIndex == [class |-> "none", dimension |-> 0, n_lists |-> 0,
            trained |-> FALSE, stored |-> <<>>]

\* a freshly constructed index object, as the layers see it
Fresh(object) ==
    [class |-> object.class, dimension |-> object.dimension,
     n_lists |-> IF object.class = "ivf" THEN object.n_lists ELSE 0,
     trained |-> FALSE, stored |-> <<>>]

\* LocalEmbeddingModel(dimension = dimension) raises
EmbeddingModelRaises(dimension) == dimension <= 0

\* a thread that serves no request
IdleThread ==
    [op |-> "idle", pc |-> "idle", index_type |-> "", dimension |-> 0,
     n_lists |-> 0, docs |-> <<>>, k |-> 0, blank |-> FALSE,
     i |-> 0, id |-> 0, view |-> <<>>]

\* a document by the number of unique chunks its content gives: 0 is content
\* that is empty or blank, which _prepare_chunks rejects; 1 is a short text;
\* MaxLists is a text long enough to train any IVFIndex of the model
Documents == {0, 1, MaxLists}

IndexTypes == {"hnsw", "ivf", "flat"}

DimensionRequests == {0, Dim}

\* no request has ended yet
NoOutcome == [op |-> "none", out |-> "none", found |-> 0]

\* the with block is left, normally or by an exception, and the response is
\* sent; observed.last keeps how the request ended until the next one starts
Leave(t, outcome, found) ==
    /\ lock' = "free"
    /\ thread' = [thread EXCEPT ![t] = IdleThread]
    /\ observed' = [observed EXCEPT
                      !.last = [op |-> thread[t].op, out |-> outcome, found |-> found]]

Goto(t, pc) == thread' = [thread EXCEPT ![t].pc = pc]

\* a request thread comes to "with self._lock:" and enters when the lock is free
Acquire(t) ==
    /\ thread[t].pc = "idle"
    /\ lock = "free"
    /\ lock' = t

\* configure(index_type, dimension, index_params = {"n_lists": nl}) has the lock
EnterConfigure(t, index_type, dimension, nl) ==
    /\ Acquire(t)
    /\ thread' = [thread EXCEPT ![t] =
                    [IdleThread EXCEPT !.op = "configure", !.pc = "model",
                                       !.index_type = index_type,
                                       !.dimension = dimension, !.n_lists = nl]]
    /\ observed' = [observed EXCEPT !.last = NoOutcome]
    /\ UNCHANGED <<core, embedding_model, index, _ingested_documents,
                   _chunk_counter>>

\* the chunk counter is followed up to MaxDocs short documents and a long one
MaxCounter == MaxDocs + MaxLists

\* a number no entry of the index carries yet, to tell ingest calls apart
NewCall(stored) ==
    IF stored = <<>> THEN 1
    ELSE 1 + CHOOSE c \in {stored[j].call : j \in 1..Len(stored)} :
                 \A j \in 1..Len(stored) : stored[j].call <= c

\* ingest(docs) has the lock
EnterIngest(t, docs) ==
    /\ Acquire(t)
    /\ Len(_ingested_documents) + Len(docs) <= MaxDocs
    /\ _chunk_counter + SumSeq(docs) <= MaxCounter
    /\ thread' = [thread EXCEPT ![t] =
                    [IdleThread EXCEPT !.op = "ingest", !.pc = "check",
                                       !.docs = docs,
                                       !.id = NewCall(index.stored)]]
    /\ observed' = [observed EXCEPT !.last = NoOutcome, !.fresh = FALSE]
    /\ UNCHANGED <<core, embedding_model, index, _ingested_documents,
                   _chunk_counter>>

\* query(question, k = k) has the lock
EnterQuery(t, k, blank) ==
    /\ Acquire(t)
    /\ thread' = [thread EXCEPT ![t] =
                    [IdleThread EXCEPT !.op = "query", !.pc = "check",
                                       !.k = k, !.blank = blank]]
    /\ observed' = [observed EXCEPT !.last = NoOutcome]
    /\ UNCHANGED <<core, embedding_model, index, _ingested_documents,
                   _chunk_counter>>

\* self.embedding_model = LocalEmbeddingModel(dimension = dimension)
ConfigureModel(t) ==
    /\ thread[t].pc = "model"
    /\ IF EmbeddingModelRaises(thread[t].dimension)
       THEN /\ Leave(t, "ValueError", 0)
            /\ UNCHANGED embedding_model
       ELSE /\ embedding_model' = thread[t].dimension
            /\ Goto(t, "index")
            /\ UNCHANGED <<lock, observed>>
    /\ UNCHANGED <<core, index, _ingested_documents, _chunk_counter>>

\* _initialise_index raises: unknown type, or the constructor does
InitialiseIndexRaises(index_type, nl) ==
    \/ index_type \notin {"hnsw", "ivf"}
    \/ index_type = "ivf" /\ IVFIndexRaises(nl)

\* the ef and iterations defaults of _initialise_index: params gives n_lists only
_initialise_index(index_type, dimension, nl) ==
    IF index_type = "hnsw" THEN Fresh(HNSWIndex(dimension, 32))
    ELSE Fresh(IVFIndex(dimension, nl, 5))

\* self.index = self._initialise_index(index_type, dimension, params)
ConfigureIndex(t) ==
    /\ thread[t].pc = "index"
    /\ IF InitialiseIndexRaises(thread[t].index_type, thread[t].n_lists)
       THEN /\ Leave(t, "ValueError", 0)
            /\ UNCHANGED index
       ELSE /\ index' = _initialise_index(thread[t].index_type, thread[t].dimension,
                                          thread[t].n_lists)
            /\ Goto(t, "reset")
            /\ UNCHANGED <<lock, observed>>
    /\ UNCHANGED <<core, embedding_model, _ingested_documents, _chunk_counter>>

\* mutant: the reset forgets the list of ingested documents
ConfigureReset_KeepsDocuments(t) ==
    /\ thread[t].pc = "reset"
    /\ _chunk_counter' = 0
    /\ lock' = "free"
    /\ thread' = [thread EXCEPT ![t] = IdleThread]
    /\ observed' = [observed EXCEPT
                      !.last = [op |-> "configure", out |-> "configured", found |-> 0],
                      !.fresh = TRUE,
                      !.requested = <<thread[t].index_type, thread[t].dimension>>,
                      !.discarded = (_ingested_documents # <<>>)]
    /\ UNCHANGED <<core, embedding_model, index, _ingested_documents>>

\* generator, chunk_size, overlap; _ingested_documents.clear(); counter = 0;
\* observed.fresh: no ingest has begun since this configure;
\* observed.discarded: documents had been ingested before it
ConfigureReset(t) ==
    /\ thread[t].pc = "reset"
    /\ _ingested_documents' = <<>>
    /\ _chunk_counter' = 0
    /\ lock' = "free"
    /\ thread' = [thread EXCEPT ![t] = IdleThread]
    /\ observed' = [observed EXCEPT
                      !.last = [op |-> "configure", out |-> "configured", found |-> 0],
                      !.fresh = TRUE,
                      !.requested = <<thread[t].index_type, thread[t].dimension>>,
                      !.discarded = (_ingested_documents # <<>>)]
    /\ UNCHANGED <<core, embedding_model, index>>

\* if self.index is None: raise RuntimeError (ingest)
IngestCheck(t) ==
    /\ thread[t].pc = "check" /\ thread[t].op = "ingest"
    /\ IF index.class = "none"
       THEN Leave(t, "RuntimeError", 0)
       ELSE /\ thread' = [thread EXCEPT ![t].pc = "doc", ![t].i = 1]
            /\ UNCHANGED <<lock, observed>>
    /\ UNCHANGED <<core, embedding_model, index, _ingested_documents,
                   _chunk_counter>>

\* index entries that carry the call and the document they came from
Entries(id, doc, of, chunks) ==
    [c \in 1..chunks |-> [call |-> id, doc |-> doc, of |-> of]]

\* str(n) of an int that is not negative, digit by digit
RECURSIVE str(_)
str(n) ==
    IF n < 10 THEN <<n>> ELSE str(n \div 10) \o <<n % 10>>

\* document_id = len(self._ingested_documents) + doc_index, with doc_index
\* counted from 1 within the call
document_id(ingested, doc_index) == Len(ingested) + doc_index

\* mutant: the counter's value at the head of the loop is given to every chunk
_embed_chunks_CounterOnce(id, doc, of, chunks, docid, counter) ==
    [c \in 1..chunks |->
        [call |-> id, doc |-> doc, of |-> of,
         document_id |-> str(docid), chunk_id |-> str(counter)]]

\* _prepare_chunks and _embed_chunks: every chunk's metadata gets
\* document_id = str(document_id) and chunk_id = str(self._chunk_counter),
\* the counter going up by one after each chunk
_embed_chunks(id, doc, of, chunks, docid, counter) ==
    [c \in 1..chunks |->
        [call |-> id, doc |-> doc, of |-> of,
         document_id |-> str(docid), chunk_id |-> str(counter + c - 1)]]

\* the ingest loop is about to train: IVFIndex without centroids
MustFit == index.class = "ivf" /\ ~index.trained

\* one round of the loop over documents: _prepare_chunks, deduplicate_chunks,
\* _embed_chunks, fit when the IVFIndex has no centroids, add, and the append
\* to _ingested_documents
IngestDocument(t) ==
    /\ thread[t].pc = "doc"
    /\ thread[t].i <= Len(thread[t].docs)
    /\ IF thread[t].docs[thread[t].i] = 0
       THEN \* _prepare_chunks: content must be a non-empty string
            /\ Leave(t, "ValueError", 0)
            /\ UNCHANGED <<index, _ingested_documents, _chunk_counter>>
       ELSE /\ _chunk_counter' = _chunk_counter + thread[t].docs[thread[t].i]
            /\ IF \/ MustFit /\ thread[t].docs[thread[t].i] < index.n_lists
                  \/ embedding_model # index.dimension
               THEN \* too few chunks to fit, or fit / add meets a vector of
                    \* another dimension at its first item
                    /\ Leave(t, "ValueError", 0)
                    /\ UNCHANGED <<index, _ingested_documents>>
               ELSE /\ index' = [index EXCEPT
                                   !.trained = (index.class = "ivf"),
                                   !.stored = @ \o
                                      _embed_chunks(thread[t].id, thread[t].i,
                                                    Len(thread[t].docs),
                                                    thread[t].docs[thread[t].i],
                                                    document_id(_ingested_documents,
                                                                thread[t].i),
                                                    _chunk_counter)]
                    /\ _ingested_documents' =
                          Append(_ingested_documents, thread[t].docs[thread[t].i])
                    /\ thread' = [thread EXCEPT ![t].i = @ + 1]
                    /\ UNCHANGED <<lock, observed>>
    /\ UNCHANGED <<core, embedding_model>>

\* the loop is over: return {"status": "ingested", ...}
IngestReturn(t) ==
    /\ thread[t].pc = "doc"
    /\ thread[t].i > Len(thread[t].docs)
    /\ Leave(t, "ingested", 0)
    /\ UNCHANGED <<core, embedding_model, index, _ingested_documents,
                   _chunk_counter>>

\* the two checks at the head of query
QueryCheck(t) ==
    /\ thread[t].pc = "check" /\ thread[t].op = "query"
    /\ IF index.class = "none" THEN Leave(t, "RuntimeError", 0)
       ELSE IF thread[t].blank THEN Leave(t, "ValueError", 0)
       ELSE Goto(t, "search") /\ UNCHANGED <<lock, observed>>
    /\ UNCHANGED <<core, embedding_model, index, _ingested_documents,
                   _chunk_counter>>

\* vector = embed(question); index.search checks the dimension and takes its
\* candidates from what the index stores
QuerySearch(t) ==
    /\ thread[t].pc = "search"
    /\ IF embedding_model # index.dimension
       THEN Leave(t, "ValueError", 0)
       ELSE /\ thread' = [thread EXCEPT ![t].pc = "scanning", ![t].view = index.stored]
            /\ UNCHANGED <<lock, observed>>
    /\ UNCHANGED <<core, embedding_model, index, _ingested_documents,
                   _chunk_counter>>

\* the candidates are scored, the first k are returned and become snippets
QueryAnswer(t) ==
    /\ thread[t].pc = "scanning"
    /\ Leave(t, "answered", Min(thread[t].k, Len(thread[t].view)))
    /\ UNCHANGED <<core, embedding_model, index, _ingested_documents,
                   _chunk_counter>>

\* PipelineState.__init__
PipelineInit ==
    /\ NoCore
    /\ embedding_model = DefaultDimension
    /\ index = NoIndex
    /\ lock = "free"
    /\ _ingested_documents = <<>>
    /\ _chunk_counter = 0
    /\ thread = [t \in Threads |-> IdleThread]
    /\ observed = [last |-> NoOutcome, fresh |-> FALSE, requested |-> <<"", 0>>,
                   discarded |-> FALSE]

PipelineNext ==
    \E t \in Threads :
       \/ lock = "free" /\ \E index_type \in IndexTypes,
                               dimension \in DimensionRequests, nl \in 0..MaxLists :
                              EnterConfigure(t, index_type, dimension, nl)
       \/ lock = "free" /\ \E docs \in SeqsUpTo(Documents, MaxDocs) :
                              EnterIngest(t, docs)
       \/ lock = "free" /\ \E k \in KValues, blank \in BOOLEAN :
                              EnterQuery(t, k, blank)
       \/ ConfigureModel(t)
       \/ ConfigureIndex(t)
       \/ ConfigureReset(t)
       \/ IngestCheck(t)
       \/ IngestDocument(t)
       \/ IngestReturn(t)
       \/ QueryCheck(t)
       \/ QuerySearch(t)
       \/ QueryAnswer(t)

PipelineSpec == PipelineInit /\ [][PipelineNext]_vars

\* the documents of one ingest call among the entries a search works on
DocsSeen(view, c) == {view[j].doc : j \in {i \in 1..Len(view) : view[i].call = c}}

\* a search sees none or all of the documents of every ingest call
WholeCalls(view) ==
    \A j \in 1..Len(view) : DocsSeen(view, view[j].call) = 1..view[j].of

\* thread u takes a step of ingest
IngestStep(u) == thread[u].op = "ingest" /\ thread'[u] # thread[u]

\* C13: with PipelineState as the calling layer, under every interleaving of
\* configure, ingest and query requests, the index search of a query sees
\* either none or all of the documents of any one ingest call, and no ingest
\* step runs between the start and the end of a query's candidate scan.
C13_QuerySeesWholeBatches ==
    /\ [](\A t \in Threads : thread[t].pc = "scanning" => WholeCalls(thread[t].view))
    /\ [][\A t \in Threads : thread[t].pc = "scanning" =>
             \A u \in Threads : ~IngestStep(u)]_vars

\* the part of C13 that the lock gives: no ingest step during a scan
ScanExcludesIngest ==
    [][\A t \in Threads : thread[t].pc = "scanning" =>
          \A u \in Threads : ~IngestStep(u)]_vars

\* --------------------------------------------- calling layers: RetrievalState
\* the kinds a /configure request names: the two classes and one that is none
Kinds == {"HNSWIndex", "IVFIndex", "FlatIndex"}

\* the dimensions a /configure request names: one that LocalEmbeddingModel
\* rejects, and two it takes
EnsureDimensions == {0, Dim, DefaultDimension}

ClassOf(cls) == IF cls = "HNSWIndex" THEN "hnsw" ELSE "ivf"

\* a thread is inside index.add or index.search
InIndex(t) == thread[t].pc \in {"adding", "scanning"}

\* a thread is inside ensure_index
InEnsure(t) == thread[t].pc \in {"ensure", "create"}

\* the identity of a new index object: one that neither self.index nor a
\* running index.add or index.search refers to
NewInstance ==
    CHOOSE n \in 0..(Cardinality(Threads) + 1) :
       /\ n # index.instance
       /\ \A t \in Threads : InIndex(t) => thread[t].id # n

\* the response is sent; RetrievalState holds no lock here
Respond(t, outcome, found) ==
    /\ thread' = [thread EXCEPT ![t] = IdleThread]
    /\ observed' = [observed EXCEPT
                      !.last = [op |-> thread[t].op, out |-> outcome, found |-> found]]

\* /configure: ensure_index(kind, dimension) enters "with self._lock:"
EnsureEnter(t, cls, dimension) ==
    /\ Acquire(t)
    /\ thread' = [thread EXCEPT ![t] =
                    [IdleThread EXCEPT !.op = "configure", !.pc = "ensure",
                                       !.index_type = cls, !.dimension = dimension]]
    /\ UNCHANGED <<core, embedding_model, index, _ingested_documents,
                   _chunk_counter, observed>>

\* the index is already the one asked for
Ensured(cls, dimension) ==
    /\ index.class # "none"
    /\ index.dimension = dimension
    /\ cls \in {"HNSWIndex", "IVFIndex"} /\ index.class = ClassOf(cls)

\* the early return, or self.embedding_model = LocalEmbeddingModel(dimension)
EnsureModel(t) ==
    /\ thread[t].pc = "ensure"
    /\ IF Ensured(thread[t].index_type, thread[t].dimension)
       THEN Leave(t, "ok", 0) /\ UNCHANGED embedding_model
       ELSE IF EmbeddingModelRaises(thread[t].dimension)
       THEN Leave(t, "ValueError", 0) /\ UNCHANGED embedding_model
       ELSE /\ embedding_model' = thread[t].dimension
            /\ Goto(t, "create")
            /\ UNCHANGED <<lock, observed>>
    /\ UNCHANGED <<core, index, _ingested_documents, _chunk_counter>>

\* self.index = HNSWIndex(dimension) or IVFIndex(dimension), or ValueError
EnsureCreate(t) ==
    /\ thread[t].pc = "create"
    /\ IF thread[t].index_type \notin {"HNSWIndex", "IVFIndex"}
       THEN Leave(t, "ValueError", 0) /\ UNCHANGED index
       ELSE /\ index' = [instance |-> NewInstance] @@
                        (IF thread[t].index_type = "HNSWIndex"
                         THEN Fresh(HNSWIndex(thread[t].dimension, 32))
                         ELSE Fresh(IVFIndex(thread[t].dimension, 4, 5)))
            /\ Leave(t, "ok", 0)
    /\ UNCHANGED <<core, embedding_model, _ingested_documents, _chunk_counter>>

\* requests that may still add an item
Adding == {t \in Threads : thread[t].op = "documents"}

\* /documents: vector = self.state.embedding_model.embed(text)
EmbedDocument(t) ==
    /\ thread[t].pc = "idle"
    /\ index.class = "none" \/ Len(index.stored) + Cardinality(Adding) < MaxDocs
    /\ thread' = [thread EXCEPT ![t] =
                    [IdleThread EXCEPT !.op = "documents", !.pc = "embedded",
                                       !.dimension = embedding_model]]
    /\ UNCHANGED <<core, embedding_model, index, lock, _ingested_documents,
                   _chunk_counter, observed>>

\* /query: vector = self.state.embedding_model.embed(text)
EmbedQuery(t, k) ==
    /\ thread[t].pc = "idle"
    /\ thread' = [thread EXCEPT ![t] =
                    [IdleThread EXCEPT !.op = "query", !.pc = "embedded",
                                       !.dimension = embedding_model, !.k = k]]
    /\ UNCHANGED <<core, embedding_model, index, lock, _ingested_documents,
                   _chunk_counter, observed>>

\* add_vector: no index, or index.add begins: IVFIndex without centroids
\* raises RuntimeError, a vector of another length raises ValueError
AddVector(t) ==
    /\ thread[t].pc = "embedded" /\ thread[t].op = "documents"
    /\ IF index.class = "none" THEN Respond(t, "RuntimeError", 0)
       ELSE IF index.class = "ivf" /\ ~index.trained THEN Respond(t, "RuntimeError", 0)
       ELSE IF thread[t].dimension # index.dimension THEN Respond(t, "ValueError", 0)
       ELSE /\ thread' = [thread EXCEPT ![t].pc = "adding", ![t].id = index.instance]
            /\ UNCHANGED observed
    /\ UNCHANGED <<core, embedding_model, index, lock, _ingested_documents,
                   _chunk_counter>>

\* self._items.append(item) of the index object that add was called on
AddAppend(t) ==
    /\ thread[t].pc = "adding"
    /\ index' = IF index.instance = thread[t].id
                THEN [index EXCEPT !.stored = @ \o Entries(1, 1, 1, 1)]
                ELSE index
    /\ Respond(t, "created", 0)
    /\ UNCHANGED <<core, embedding_model, lock, _ingested_documents,
                   _chunk_counter>>

\* search: no index gives [], or index.search begins: a query of another
\* length raises ValueError, IVFIndex without centroids returns []
Search(t) ==
    /\ thread[t].pc = "embedded" /\ thread[t].op = "query"
    /\ IF index.class = "none" THEN Respond(t, "answered", 0)
       ELSE IF thread[t].dimension # index.dimension THEN Respond(t, "ValueError", 0)
       ELSE IF index.class = "ivf" /\ ~index.trained THEN Respond(t, "answered", 0)
       ELSE /\ thread' = [thread EXCEPT ![t].pc = "scanning",
                                        ![t].id = index.instance,
                                        ![t].view = index.stored]
            /\ UNCHANGED observed
    /\ UNCHANGED <<core, embedding_model, index, lock, _ingested_documents,
                   _chunk_counter>>

\* the candidates are scored and the first k are returned
SearchReturn(t) ==
    /\ thread[t].pc = "scanning"
    /\ Respond(t, "answered", Min(thread[t].k, Len(thread[t].view)))
    /\ UNCHANGED <<core, embedding_model, index, lock, _ingested_documents,
                   _chunk_counter>>

\* RetrievalState.__init__
RetrievalInit ==
    /\ NoCore
    /\ embedding_model = DefaultDimension
    /\ index = [instance |-> 0] @@ NoIndex
    /\ lock = "free"
    /\ _ingested_documents = <<>>
    /\ _chunk_counter = 0
    /\ thread = [t \in Threads |-> IdleThread]
    /\ observed = [last |-> NoOutcome, fresh |-> FALSE, requested |-> <<"", 0>>,
                   discarded |-> FALSE]

RetrievalNext ==
    \E t \in Threads :
       \/ \E cls \in Kinds, dimension \in EnsureDimensions :
             EnsureEnter(t, cls, dimension)
       \/ EnsureModel(t)
       \/ EnsureCreate(t)
       \/ EmbedDocument(t)
       \/ \E k \in KValues : EmbedQuery(t, k)
       \/ AddVector(t)
       \/ AddAppend(t)
       \/ Search(t)
       \/ SearchReturn(t)

RetrievalSpec == RetrievalInit /\ [][RetrievalNext]_vars

\* thread t passes its vector to the index: index.add or index.search is called
PassesVector(t) ==
    /\ thread[t].pc = "embedded" /\ thread'[t] # thread[t]
    /\ index.class # "none"

\* C14: with RetrievalState behind the threaded server, no two threads are
\* inside index.add or index.search of one index object at a time, no thread
\* is inside either while another is inside ensure_index, and every vector
\* passed to the index was embedded by a model of the index's dimension.
C14_RetrievalCallsSerialised ==
    /\ [](\A t, u \in Threads :
             t # u => /\ ~(InIndex(t) /\ InIndex(u) /\ thread[t].id = thread[u].id)
                      /\ ~(InEnsure(t) /\ InIndex(u)))
    /\ [][\A t \in Threads :
             PassesVector(t) => thread[t].dimension = index.dimension]_vars

\* thread t of PipelineState calls index.search: the step out of "search"
CallsSearch(t) == thread[t].pc = "search" /\ thread'[t] # thread[t]

\* thread t of PipelineState calls index.add: a round of the ingest loop that
\* gets as far as the add
CallsAdd(t) ==
    /\ thread[t].pc = "doc" /\ thread'[t] # thread[t]
    /\ index'.stored # index.stored

\* C15: in every run of PipelineState, no call to index.search or index.add
\* on an IVFIndex comes before a successful fit of that index: search is
\* called on a trained index only, and an add leaves a trained index.
C15_FitBeforeAddAndSearch ==
    [][\A t \in Threads :
          /\ (CallsSearch(t) /\ index.class = "ivf") => index.trained
          /\ (CallsAdd(t) /\ index.class = "ivf") => index'.trained]_vars

\* the ingest half of C15 alone: every add of PipelineState follows a fit
FitBeforeAdd ==
    [][\A t \in Threads : (CallsAdd(t) /\ index.class = "ivf") => index'.trained]_vars

\* ------------------------------------------------------ LocalEmbeddingModel
MaxText == 2      \* longest text handed to embed, in characters
MaxN == 2         \* largest n-gram length of a configuration

\* U+0130, capital I with a dot above: the one character whose lower-case
\* form is two characters long ("i" and U+0307, the combining dot above)
DottedI == "I-dot"

Chars == {"a", "A", DottedI}

Texts == SeqsUpTo(Chars, MaxText)

\* the valid configurations: dimension > 0, 1 <= start <= end
NGramRanges == {r \in (1..MaxN) \X (1..MaxN) : r[1] <= r[2]}

\* str.lower() of one character
LowerChar(c) ==
    IF c = "A" THEN <<"a">>
    ELSE IF c = DottedI THEN <<"i", "dot">>
    ELSE <<c>>

\* text.lower()
RECURSIVE Lower(_)
Lower(text) ==
    IF text = <<>> THEN <<>> ELSE LowerChar(Head(text)) \o Lower(Tail(text))

\* hash() of a string is fixed within one interpreter and salted between
\* interpreters; it may be negative
Salts == {0, 3}

CharCode(c) ==
    IF c = "a" THEN 1 ELSE IF c = "i" THEN 2 ELSE IF c = "dot" THEN 5 ELSE 7

hash(salt, gram) ==
    salt - SumSeq([i \in 1..Len(gram) |-> CharCode(gram[i]) * (i + salt)])

\* the windows "for n in range(start, end + 1): for index in
\* range(len(text) - n + 1)" of the lower-cased text, as <<n, index>>
Windows(low, start, end) ==
    {w \in (start..end) \X (1..Len(low)) : w[2] + w[1] - 1 <= Len(low)}

GramAt(low, w) == SubSeq(low, w[2], w[2] + w[1] - 1)

\* _generate_ngrams: the Counter of the n-grams of text.lower()
_generate_ngrams(text, start, end) ==
    [gram \in {GramAt(Lower(text), w) : w \in Windows(Lower(text), start, end)} |->
        Cardinality({w \in Windows(Lower(text), start, end) :
                        GramAt(Lower(text), w) = gram})]

\* the counts of the grams of one bucket, added up
RECURSIVE BucketSum(_, _)
BucketSum(grams, todo) ==
    IF todo = {} THEN 0
    ELSE LET gram == CHOOSE g \in todo : TRUE
         IN  grams[gram] + BucketSum(grams, todo \ {gram})

\* the loop of embed: vector[hash(gram) % dimension] += count
Buckets(grams, dimension, salt) ==
    [b \in 1..dimension |->
        BucketSum(grams, {g \in DOMAIN grams : hash(salt, g) % dimension = b - 1})]

SumSquares(vector) == SumSeq([i \in 1..Len(vector) |-> vector[i] * vector[i]])

\* mutant: the vector is returned as it is, never divided by its norm
_normalise_NoDivision(vector) ==
    [over |-> vector, norm2 |-> 1]

\* _normalise: every value over the norm, or the vector itself when the norm
\* is 0.0; a value is over[i] / sqrt(norm2)
_normalise(vector) ==
    IF SumSquares(vector) = 0 THEN [over |-> vector, norm2 |-> 1]
    ELSE [over |-> vector, norm2 |-> SumSquares(vector)]

\* LocalEmbeddingModel(dimension, ngram_range = (start, end)).embed(text)
embed(text, dimension, start, end, salt) ==
    _normalise(Buckets(_generate_ngrams(text, start, end), dimension, salt))

Embed(text, dimension, range, salt) ==
    /\ Idle
    /\ call' = [op |-> "embed", text |-> text, dimension |-> dimension,
                ngram_range |-> range, salt |-> salt]
    /\ err' = "none"
    /\ result' = <<embed(text, dimension, range[1], range[2], salt)>>
    /\ evaluated' = 0
    /\ UNCHANGED <<service, heap, config, items, centroids, lists, added, fitted>>

AllZero(vector) == \A i \in 1..Len(vector) : vector[i] = 0

\* the squared L2 norm of a returned vector is 1
UnitNorm(v) == SumSquares(v.over) = v.norm2

\* bucket b of the returned vector counts the windows whose n-gram falls in it
CountsWindows(v, low, c) ==
    \A b \in 1..c.dimension :
       v.over[b] = Cardinality({w \in Windows(low, c.ngram_range[1], c.ngram_range[2]) :
                                  hash(c.salt, GramAt(low, w)) % c.dimension = b - 1})

\* what embed returns, but for when it is all-zero
EmbedShape(v, c) ==
    /\ Len(v.over) = c.dimension
    /\ CountsWindows(v, Lower(c.text), c)
    /\ ~AllZero(v.over) => UnitNorm(v)

\* C16 as stated: length D; all-zero exactly when the text has fewer than minN
\* characters; otherwise the bucket counts, normalised to unit norm.
C16_AllZeroIffTextShort ==
    call.op = "embed" =>
       /\ EmbedShape(result[1], call)
       /\ AllZero(result[1].over) <=> Len(call.text) < call.ngram_range[1]

\* C16: for every text and every valid configuration, embed returns a vector
\* of length D that is all-zero exactly when the lower-cased text has fewer
\* than minN characters, and otherwise is the vector of bucket counts of the
\* lower-cased text's n-grams divided by its L2 norm (unit norm).
C16_EmbedNormalised ==
    call.op = "embed" =>
       /\ EmbedShape(result[1], call)
       /\ AllZero(result[1].over) <=> Len(Lower(call.text)) < call.ngram_range[1]

\* embed has returned a non-zero vector for a text that is shorter than minN
\* and whose lower-case form is not
C16_Witness ==
    /\ call.op = "embed"
    /\ Len(call.text) < call.ngram_range[1]
    /\ Len(Lower(call.text)) >= call.ngram_range[1]
    /\ ~AllZero(result[1].over) /\ UnitNorm(result[1])

\* ------------------------------------------------------- cosine_similarity
ZeroVec(n) == [i \in 1..n |-> 0]

\* operands of cosine_similarity: zero and non-zero vectors of three lengths
CosineArgs ==
    {V(0, 0), V(1, 0), V(-1, 1), ShortVec, ZeroVec(Dim - 1), LongVec,
     ZeroVec(Dim + 1)}

\* the norms _l2_norm has been called for when cosine_similarity is left
NormsExamined(vec_a, vec_b) == IF Len(vec_a) # Len(vec_b) THEN 0 ELSE 2

CosineSimilarity(vec_a, vec_b) ==
    /\ Idle
    /\ call' = [op |-> "cosine_similarity", vec_a |-> vec_a, vec_b |-> vec_b,
                norms |-> NormsExamined(vec_a, vec_b)]
    /\ err' = IF cosine_similarity(vec_a, vec_b) = DimError
              THEN "DimensionMismatch" ELSE "none"
    /\ result' = IF cosine_similarity(vec_a, vec_b) = DimError
                 THEN <<>> ELSE <<cosine_similarity(vec_a, vec_b)>>
    /\ evaluated' = 0
    /\ UNCHANGED <<service, heap, config, items, centroids, lists, added, fitted>>

\* C17: cosine_similarity of operands of equal length returns exactly 0.0
\* whenever one of them, or both, is all-zero; for operands of different
\* length it fails with DimensionMismatch and has examined no norm.
C17_ZeroAndMismatch ==
    call.op = "cosine_similarity" =>
       IF Len(call.vec_a) # Len(call.vec_b)
       THEN err = "DimensionMismatch" /\ result = <<>> /\ call.norms = 0
       ELSE (AllZero(call.vec_a) \/ AllZero(call.vec_b))
               => (err = "none" /\ result = <<ZeroScore>>)

\* one call with two all-zero operands of equal length has returned 0.0
C17_Witness ==
    /\ call.op = "cosine_similarity"
    /\ Len(call.vec_a) = Len(call.vec_b)
    /\ AllZero(call.vec_a) /\ AllZero(call.vec_b)
    /\ result = <<ZeroScore>>

\* ------------------------------------------------------- probes of a search
\* centroid c comes before centroid d in the ranking of the query: a higher
\* score, or the same score and the lower index
RankedBefore(query, c, d) ==
    \/ ScoreLT(cosine_similarity(query, centroids[d]),
               cosine_similarity(query, centroids[c]))
    \/ /\ cosine_similarity(query, centroids[c]) = cosine_similarity(query, centroids[d])
       /\ c < d

\* the p highest-scoring centroids
Highest(query, p) ==
    {c \in 1..Len(centroids) :
        Cardinality({d \in 1..Len(centroids) : RankedBefore(query, d, c)}) < p}

\* the items in the buckets of a set of centroids
InBuckets(cs) == UNION {{lists[c][i] : i \in 1..Len(lists[c])} : c \in cs}

\* how many items the buckets of a set of centroids hold
RECURSIVE BucketSizes(_)
BucketSizes(cs) ==
    IF cs = {} THEN 0
    ELSE LET c == CHOOSE x \in cs : TRUE
         IN  Len(lists[c]) + BucketSizes(cs \ {c})

\* the number of probes the claim gives a call
StatedProbes(c) ==
    IF c.n_probe = None THEN Min(2, n_lists) ELSE Min(c.n_probe, n_lists)

\* the search scored the items of the buckets of cs and no others, and every
\* pair it returned is the pair of one of them
ScannedExactly(cs) ==
    /\ evaluated = BucketSizes(cs)
    /\ Len(result) = Min(call.k, evaluated)
    /\ \A i \in 1..Len(result) :
          \E id \in InBuckets(cs) :
             result[i] = <<cosine_similarity(call.query, heap[id].vector),
                           heap[id].metadata>>

\* C18: search on a trained IVFIndex gathers its candidates from exactly the
\* buckets of the p highest-scoring centroids (ties to the lowest index), with
\* p = min(n_probe, n_lists) for the n_probe the caller passes and
\* p = min(2, n_lists) when none is given; no other item is scored or returned.
C18_ProbesAsPassed ==
    (kind = "ivf" /\ call.op = "search" /\ err = "none" /\ centroids # <<>>)
       => ScannedExactly(Highest(call.query, StatedProbes(call)))

\* what line 159 makes of n_probe: 0 counts as not given
C18_ProbesZeroAsDefault ==
    (kind = "ivf" /\ call.op = "search" /\ err = "none" /\ centroids # <<>>)
       => ScannedExactly(Highest(call.query,
                                 IF call.n_probe = 0 THEN Min(2, n_lists)
                                 ELSE StatedProbes(call)))

\* a configure call has returned and no ingest has begun since, and no other
\* configure call is between its new index and its own reset
AfterConfigure ==
    /\ observed.fresh
    /\ \A t \in Threads : thread[t].pc # "reset"

MaxSnippets == 3  \* longest list of snippets handed to fuse
MaxTokens == 3    \* largest max_tokens of a ContextFusion
MaxWords == 2     \* most whitespace-separated words in a snippet's content

SnippetScores == {1, 2}

\* a ContextSnippet by its score and the number of words of its content
ContextSnippets == [score : SnippetScores, words : 0..MaxWords]

\* max(1, len(text.split()))
_token_estimate(snippet) == Max(1, snippet.words)

\* sorted(snippets, key = score, reverse = True), as positions in snippets
Ordered(snippets) ==
    [i \in 1..Len(snippets) |->
        SortDesc([j \in 1..Len(snippets) |-> <<<<snippets[j].score, 1>>, j>>])[i][2]]

\* mutant: the loop ends at the first snippet that does not fit
RECURSIVE FuseLoop_StopsAtSkip(_, _, _, _)
FuseLoop_StopsAtSkip(snippets, ordered, budget, fused) ==
    IF ordered = <<>> THEN fused
    ELSE IF _token_estimate(snippets[Head(ordered)]) > budget THEN fused
    ELSE IF budget - _token_estimate(snippets[Head(ordered)]) <= 0
    THEN Append(fused, Head(ordered))
    ELSE FuseLoop_StopsAtSkip(snippets, Tail(ordered),
                              budget - _token_estimate(snippets[Head(ordered)]),
                              Append(fused, Head(ordered)))

\* the loop of fuse over the ordered snippets that are left
RECURSIVE FuseLoop(_, _, _, _)
FuseLoop(snippets, ordered, budget, fused) ==
    IF ordered = <<>> THEN fused
    ELSE IF _token_estimate(snippets[Head(ordered)]) > budget
    THEN FuseLoop(snippets, Tail(ordered), budget, fused)
    ELSE IF budget - _token_estimate(snippets[Head(ordered)]) <= 0
    THEN Append(fused, Head(ordered))
    ELSE FuseLoop(snippets, Tail(ordered),
                  budget - _token_estimate(snippets[Head(ordered)]),
                  Append(fused, Head(ordered)))

\* ContextFusion(max_tokens).fuse(snippets): the positions of the snippets
\* that are returned, in the order they are returned in
fuse(snippets, max_tokens) ==
    FuseLoop(snippets, Ordered(snippets), max_tokens, <<>>)

Fuse(snippets, max_tokens) ==
    /\ Idle
    /\ call' = [op |-> "fuse", snippets |-> snippets, max_tokens |-> max_tokens]
    /\ err' = "none"
    /\ result' = <<fuse(snippets, max_tokens)>>
    /\ evaluated' = 0
    /\ UNCHANGED <<service, heap, config, items, centroids, lists, added, fitted>>

\* snippet p is reached before snippet q: a higher score, or the same score
\* and the earlier place in the list
ReachedBefore(snippets, p, q) ==
    \/ snippets[p].score > snippets[q].score
    \/ snippets[p].score = snippets[q].score /\ p < q

\* the token estimates of the returned snippets that a predicate picks
Spent(snippets, fused, Picked(_)) ==
    SumSeq([i \in 1..Len(fused) |->
              IF Picked(fused[i]) THEN _token_estimate(snippets[fused[i]]) ELSE 0])

\* the budget that is left when snippet p is reached
Remaining(snippets, fused, max_tokens, p) ==
    LET Earlier(q) == ReachedBefore(snippets, q, p)
    IN  max_tokens - Spent(snippets, fused, Earlier)

\* C20: fuse returns snippets in non-increasing score order, the sum of their
\* token estimates is at most max_tokens, and a snippet is left out only if
\* its cost exceeded the budget remaining when it was reached or the budget
\* was already exhausted.
C20_FuseRespectsBudget ==
    call.op = "fuse" =>
       LET snippets == call.snippets
           fused == result[1]
           Every(q) == TRUE
       IN  /\ \A i, j \in 1..Len(fused) :
                 /\ fused[i] \in 1..Len(snippets)
                 /\ i < j => /\ snippets[fused[i]].score >= snippets[fused[j]].score
                             /\ fused[i] # fused[j]
           /\ Spent(snippets, fused, Every) <= call.max_tokens
           /\ \A p \in 1..Len(snippets) :
                 (\A i \in 1..Len(fused) : fused[i] # p)
                    => \/ _token_estimate(snippets[p]) >
                             Remaining(snippets, fused, call.max_tokens, p)
                       \/ Remaining(snippets, fused, call.max_tokens, p) <= 0

\* a snippet was skipped for its cost and one reached after it was returned
C20_Witness ==
    /\ call.op = "fuse"
    /\ \E p \in 1..Len(call.snippets) :
          /\ \A i \in 1..Len(result[1]) : result[1][i] # p
          /\ \E i \in 1..Len(result[1]) : ReachedBefore(call.snippets, p, result[1][i])

\* ------------------------------------------------------- deduplicate_chunks
MaxChunks == 3    \* longest list of chunks handed to deduplicate_chunks

Whitespace == {" ", "tab"}

\* the TextChunk objects a caller hands over: two ids occur twice, and three
\* texts differ only in the whitespace around them
ChunkPool ==
    { [id |-> 0, text |-> <<"a">>],
      [id |-> 1, text |-> <<" ", "a", "tab">>],
      [id |-> 1, text |-> <<"a", " ">>],
      [id |-> 12, text |-> <<"a", " ", "b">>],
      [id |-> 0, text |-> <<" ">>] }

\* text.strip()
RECURSIVE strip(_)
strip(text) ==
    IF text = <<>> THEN text
    ELSE IF Head(text) \in Whitespace THEN strip(Tail(text))
    ELSE IF text[Len(text)] \in Whitespace THEN strip(SubSeq(text, 1, Len(text) - 1))
    ELSE text

\* mutant: the text is hashed as it is, with the whitespace around it
Fingerprint_Unstripped(text) == <<"sha256", text>>

\* _hash_text(chunk.text.strip()): SHA-256 digests of different texts differ
Fingerprint(text) == <<"sha256", strip(text)>>

\* the loop of deduplicate_chunks from position i on: seen is the set of
\* fingerprints met, ordered the positions of the chunks kept, duplicates
\* the ids filed under each fingerprint that came again
RECURSIVE DedupLoop(_, _, _, _, _)
DedupLoop(chunks, i, seen, ordered, duplicates) ==
    IF i > Len(chunks)
    THEN [unique_chunks |-> ordered, duplicates |-> duplicates]
    ELSE IF Fingerprint(chunks[i].text) \in seen
    THEN DedupLoop(chunks, i + 1, seen, ordered,
                   IF Fingerprint(chunks[i].text) \in DOMAIN duplicates
                   THEN [duplicates EXCEPT ![Fingerprint(chunks[i].text)] =
                            Append(@, str(chunks[i].id))]
                   ELSE (Fingerprint(chunks[i].text) :> <<str(chunks[i].id)>>)
                           @@ duplicates)
    ELSE DedupLoop(chunks, i + 1, seen \cup {Fingerprint(chunks[i].text)},
                   Append(ordered, i), duplicates)

\* deduplicate_chunks(chunks): unique_chunks as positions in chunks
deduplicate_chunks(chunks) == DedupLoop(chunks, 1, {}, <<>>, <<>>)

Deduplicate(chunks) ==
    /\ Idle
    /\ call' = [op |-> "deduplicate_chunks", chunks |-> chunks]
    /\ err' = "none"
    /\ result' = <<deduplicate_chunks(chunks)>>
    /\ evaluated' = 0
    /\ UNCHANGED <<service, heap, config, items, centroids, lists, added, fitted>>

\* position i holds the first chunk with its stripped text
FirstOccurrence(chunks, i) ==
    \A j \in 1..(i - 1) : strip(chunks[j].text) # strip(chunks[i].text)

\* a set of positions as the list of them in ascending order
Ascending(S) ==
    [n \in 1..Cardinality(S) |->
        CHOOSE x \in S : Cardinality({y \in S : y < x}) = n - 1]

\* the ids of the chunks after the first with the stripped text of
\* fingerprint f, in input order, as the strings duplicates holds
LaterIds(chunks, f) ==
    [n \in 1..Cardinality({i \in 1..Len(chunks) :
                              Fingerprint(chunks[i].text) = f
                                 /\ ~FirstOccurrence(chunks, i)}) |->
        str(chunks[Ascending({i \in 1..Len(chunks) :
                                Fingerprint(chunks[i].text) = f
                                   /\ ~FirstOccurrence(chunks, i)})[n]].id)]

\* the ids recorded under the fingerprints fs, counted
RECURSIVE RecordedIds(_, _)
RecordedIds(duplicates, fs) ==
    IF fs = {} THEN 0
    ELSE LET f == CHOOSE g \in fs : TRUE
         IN  Len(duplicates[f]) + RecordedIds(duplicates, fs \ {f})

\* C21: unique_chunks is exactly the first occurrence of each distinct
\* stripped text, in input order; every other chunk has its id recorded
\* under its fingerprint in duplicates; len(unique_chunks) plus the number of
\* recorded ids is len(chunks); and deduplicating chunks + chunks gives the
\* same unique_chunks as deduplicating chunks.
C21_DeduplicateKeepsFirsts ==
    call.op = "deduplicate_chunks" =>
       LET chunks == call.chunks
           res == result[1]
       IN  /\ res.unique_chunks =
                 Ascending({i \in 1..Len(chunks) : FirstOccurrence(chunks, i)})
           /\ \A f \in DOMAIN res.duplicates :
                 res.duplicates[f] = LaterIds(chunks, f) /\ res.duplicates[f] # <<>>
           /\ \A i \in 1..Len(chunks) :
                 ~FirstOccurrence(chunks, i)
                    => Fingerprint(chunks[i].text) \in DOMAIN res.duplicates
           /\ Len(res.unique_chunks) + RecordedIds(res.duplicates, DOMAIN res.duplicates)
                 = Len(chunks)
           /\ deduplicate_chunks(chunks \o chunks).unique_chunks = res.unique_chunks

\* two chunks whose texts differ only in whitespace, between them a chunk
\* with another text that also comes again: one kept for each text
C21_Witness ==
    /\ call.op = "deduplicate_chunks"
    /\ Len(call.chunks) = 3
    /\ call.chunks[1].text # call.chunks[3].text
    /\ result[1].unique_chunks = <<1, 2>>
    /\ Cardinality(DOMAIN result[1].duplicates) = 1

\* ------------------------------------------------------- the rounds of fit
\* centroid idx is the one a vector is assigned to: no centroid scores
\* higher and none before it scores as high
NearestIs(vector, cents, idx) ==
    \A c \in 1..Len(cents) :
       IF c < idx
       THEN ScoreLT(cosine_similarity(vector, cents[c]),
                    cosine_similarity(vector, cents[idx]))
       ELSE ScoreLE(cosine_similarity(vector, cents[c]),
                    cosine_similarity(vector, cents[idx]))

\* the training vectors, by position, that a round assigns to centroid idx
Members(data, cents, idx) ==
    {i \in 1..Len(data) : NearestIs(data[i], cents, idx)}

RECURSIVE SumAt(_, _, _)
SumAt(data, members, dim) ==
    IF members = {} THEN 0
    ELSE LET i == CHOOSE m \in members : TRUE
         IN  data[i][dim] + SumAt(data, members \ {i}, dim)

\* after is what one round makes of the centroids before
RoundDone(data, before, after) ==
    /\ Len(after) = Len(before)
    /\ \A idx \in 1..Len(before) :
          IF Members(data, before, idx) = {}
          THEN after[idx] = before[idx]
          ELSE /\ Len(after[idx]) = Dim
               /\ \A dim \in 1..Dim :
                     after[idx][dim] * Cardinality(Members(data, before, idx))
                        = SumAt(data, Members(data, before, idx), dim)

\* C22: a successful fit runs exactly iterations rounds; in each round a
\* centroid with assigned training vectors becomes their per-dimension mean
\* and a centroid with none keeps its value, so that n_lists centroids remain.
C22_FitRounds ==
    (kind = "ivf" /\ call.op = "fit" /\ err = "none") =>
       /\ Len(call.rounds) = iterations + 1
       /\ \A r \in 1..iterations :
             RoundDone(call.data, call.rounds[r], call.rounds[r + 1])
       /\ centroids = call.rounds[iterations + 1]
       /\ Len(centroids) = n_lists

\* a fit of more than one round in which one centroid had every training
\* vector assigned and the other, with none, kept its value to the end
C22_Witness ==
    /\ kind = "ivf" /\ call.op = "fit" /\ err = "none" /\ iterations > 1
    /\ \E idx, other \in 1..n_lists :
          /\ Members(call.data, call.rounds[1], idx) = {}
          /\ centroids[idx] = call.rounds[1][idx]
          /\ Cardinality(Members(call.data, call.rounds[1], other)) = Len(call.data)
          /\ Len(call.data) > 1

\* C23: after every successful fit the index has n_lists empty buckets,
\* whatever it held before, and a search that follows with no add in
\* between scores nothing and returns the empty result.
C23_FitEmptiesBuckets ==
    kind = "ivf" =>
       /\ (call.op = "fit" /\ err = "none")
             => /\ Len(lists) = n_lists
                /\ \A i \in 1..Len(lists) : lists[i] = <<>>
                /\ added = <<>>
       /\ (call.op = "search" /\ err = "none" /\ added = <<>>)
             => (result = <<>> /\ evaluated = 0)

\* a fit has succeeded on an index whose buckets held items
C23_Witness ==
    /\ kind = "ivf" /\ call.op = "fit" /\ err = "none"
    /\ call.held > 0
    /\ Flatten(lists) = <<>>

\* no thread is inside configure or ensure_index
NoConfigureRunning ==
    \A t \in Threads : thread[t].op # "configure"

\* C24: whenever an index is set and no configure or ensure_index call is
\* under way, the embedding model's dimension is the index's dimension,
\* whatever calls came before and however they ended.
C24_ModelFitsIndex ==
    (index.class # "none" /\ NoConfigureRunning)
       => embedding_model = index.dimension

\* two index entries are chunks of one document of one ingest call
SameDocument(a, b) == a.call = b.call /\ a.doc = b.doc

\* C25: between two configure calls, the document_id values that ingest
\* assigns are pairwise distinct over all documents of all ingest calls: two
\* chunks with the same document_id come from the same document.
C25_DocumentIdsDistinct ==
    \A i, j \in 1..Len(index.stored) :
       index.stored[i].document_id = index.stored[j].document_id
          => SameDocument(index.stored[i], index.stored[j])

\* a step that is not the reset at the end of a successful configure
NoReset == \A t \in Threads : thread[t].pc # "reset"

\* C26: the vectors the current index holds carry pairwise distinct chunk_id
\* values, after failing ingests as well, and the chunk counter never
\* decreases except where configure sets it to 0.
C26_ChunkIdsDistinct ==
    /\ [](\A i, j \in 1..Len(index.stored) :
             index.stored[i].chunk_id = index.stored[j].chunk_id => i = j)
    /\ [][NoReset => _chunk_counter' >= _chunk_counter]_vars

\* C26 witness: an ingest has failed after its chunks took their numbers, and
\* a later one has stored chunks of two documents
C26_Witness ==
    /\ Len(index.stored) >= 2
    /\ _chunk_counter > Len(index.stored)
    /\ \E i, j \in 1..Len(index.stored) :
          ~SameDocument(index.stored[i], index.stored[j])

\* ----------------------------------------------------------------- chunk_text
MaxLength == 5    \* longest text handed to chunk_text, in characters
MaxSize == 3      \* largest chunk_size and overlap handed to chunk_text

ChunkChars == {"a", "b"}

ChunkTexts == SeqsUpTo(ChunkChars, MaxLength)

\* the three checks at the head of chunk_text
ChunkTextRaises(chunk_size, overlap) ==
    chunk_size <= 0 \/ overlap < 0 \/ overlap >= chunk_size

\* text[start:end]
Slice(text, start, end) == SubSeq(text, start + 1, end)

\* mutant: the next window starts where this one ends
RECURSIVE ChunkLoop_NoOverlap(_, _, _, _, _)
ChunkLoop_NoOverlap(text, chunk_size, overlap, start, number) ==
    IF ~(start < Len(text)) THEN <<>>
    ELSE LET end == Min(start + chunk_size, Len(text))
             chunk == [id |-> number, text |-> Slice(text, start, end),
                       metadata |-> [start |-> str(start), end |-> str(end)]]
         IN  IF end = Len(text) THEN <<chunk>>
             ELSE <<chunk>> \o ChunkLoop_NoOverlap(text, chunk_size, overlap,
                                                   end, number + 1)

\* the while loop of chunk_text from one value of start and index (number) on: the
\* chunks it appends
RECURSIVE ChunkLoop(_, _, _, _, _)
ChunkLoop(text, chunk_size, overlap, start, number) ==
    IF ~(start < Len(text)) THEN <<>>
    ELSE LET end == Min(start + chunk_size, Len(text))
             chunk == [id |-> number, text |-> Slice(text, start, end),
                       metadata |-> [start |-> str(start), end |-> str(end)]]
         IN  IF end = Len(text) THEN <<chunk>>
             ELSE <<chunk>> \o ChunkLoop(text, chunk_size, overlap,
                                         end - overlap, number + 1)

\* chunk_text(text, chunk_size = chunk_size, overlap = overlap), metadata = None
chunk_text(text, chunk_size, overlap) == ChunkLoop(text, chunk_size, overlap, 0, 0)

\* one call of chunk_text
ChunkText(text, chunk_size, overlap) ==
    /\ Idle
    /\ call' = [op |-> "chunk_text", text |-> text, chunk_size |-> chunk_size,
                overlap |-> overlap]
    /\ IF ChunkTextRaises(chunk_size, overlap)
       THEN err' = "ValueError" /\ result' = <<>>
       ELSE err' = "none" /\ result' = <<chunk_text(text, chunk_size, overlap)>>
    /\ evaluated' = 0
    /\ UNCHANGED <<service, heap, config, items, centroids, lists, added, fitted>>

\* int(s) of a string of digits
RECURSIVE int(_)
int(digits) ==
    IF digits = <<>> THEN 0
    ELSE 10 * int(SubSeq(digits, 1, Len(digits) - 1)) + digits[Len(digits)]

StartOf(chunk) == int(chunk.metadata.start)
EndOf(chunk) == int(chunk.metadata.end)

\* a call of chunk_text with valid parameters has returned
Chunked ==
    /\ call.op = "chunk_text"
    /\ call.chunk_size > 0 /\ 0 <= call.overlap /\ call.overlap < call.chunk_size

\* C27: for every text and valid parameters chunk_text returns; every loop
\* iteration appends one chunk and the window start strictly increases from
\* one to the next; each chunk is the text of its [start, end) range and has
\* at most chunk_size characters; consecutive chunks overlap by exactly
\* `overlap` characters; the ranges cover the whole text, the first starting
\* at 0 and the last ending at len(text).
C27_ChunksCoverText ==
    Chunked =>
       /\ err = "none"
       /\ LET chunks == result[1]
              n == Len(call.text)
          IN  /\ \A i \in 1..Len(chunks) :
                    /\ chunks[i].id = i - 1
                    /\ chunks[i].text = Slice(call.text, StartOf(chunks[i]), EndOf(chunks[i]))
                    /\ Len(chunks[i].text) = EndOf(chunks[i]) - StartOf(chunks[i])
                    /\ Len(chunks[i].text) >= 1
                    /\ Len(chunks[i].text) <= call.chunk_size
              /\ \A i \in 1..(Len(chunks) - 1) :
                    /\ StartOf(chunks[i]) < StartOf(chunks[i + 1])
                    /\ EndOf(chunks[i]) < EndOf(chunks[i + 1])
                    /\ EndOf(chunks[i]) - StartOf(chunks[i + 1]) = call.overlap
              /\ \A p \in 0..(n - 1) :
                    \E i \in 1..Len(chunks) :
                       StartOf(chunks[i]) <= p /\ p < EndOf(chunks[i])
              /\ (n = 0) = (chunks = <<>>)
              /\ n > 0 => /\ StartOf(chunks[1]) = 0
                          /\ EndOf(chunks[Len(chunks)]) = n

\* C27 witness: chunks that overlap, the last one shorter than chunk_size
C27_Witness ==
    /\ Chunked /\ err = "none"
    /\ call.overlap >= 1
    /\ Len(result[1]) >= 2
    /\ Len(result[1][Len(result[1])].text) < call.chunk_size

\* ------------------------------------------------- library calls, one by one
FnInit == NoCore /\ NoService

FnNext ==
    \/ Idle /\ \E dimension \in DimensionArgs, efArg \in EfArgs :
                  NewHNSWIndex(dimension, efArg)
    \/ Idle /\ \E dimension \in DimensionArgs, nl \in NListsArgs,
                   rounds \in IterationsArgs : NewIVFIndex(dimension, nl, rounds)
    \/ Idle /\ \E text \in Texts, dimension \in 1..Dim, range \in NGramRanges,
                   salt \in Salts : Embed(text, dimension, range, salt)
    \/ Idle /\ \E vec_a \in CosineArgs, vec_b \in CosineArgs :
                  CosineSimilarity(vec_a, vec_b)
    \/ Idle /\ \E snippets \in SeqsUpTo(ContextSnippets, MaxSnippets),
                   max_tokens \in 1..MaxTokens : Fuse(snippets, max_tokens)
    \/ Idle /\ \E chunks \in SeqsUpTo(ChunkPool, MaxChunks) : Deduplicate(chunks)
    \/ Idle /\ \E text \in ChunkTexts, chunk_size \in 0..MaxSize,
                   overlap \in (-1)..MaxSize : ChunkText(text, chunk_size, overlap)
    \/ Discard

FnSpec == FnInit /\ [][FnNext]_vars
====
